---- MODULE Spec2Model ----
(***************************************************************************)
(* Model of the Harmonizome downloader (harmonizome_cli.py): cmd_download  *)
(* compiles a job list, runs download_one for every job on a bounded       *)
(* thread pool over a shared filesystem, collects the futures in           *)
(* completion order and summarises.  A batch may be re-run on the disk     *)
(* the previous run left behind.  The last sections model rest_list of     *)
(* harmonizome_api_cli.py, which pages through the REST API.               *)
(***************************************************************************)
EXTENDS Naturals, Sequences, FiniteSets, TLC

VARIABLES
    args,       \* argparse.Namespace of the invocation (fixed over re-runs)
    rerun,      \* TRUE when the batch has been run before on this disk
    mainpc,     \* position of the main thread inside cmd_download
    rc,         \* <<v>> once cmd_download has returned v, None before
    jobs,       \* the work list: sequence of <<name, path, downloadable>>
    session,    \* TRUE once make_session has been called in this run
    pc,         \* per job: position of its download_one call
    fut,        \* per job: what its future holds (pending, returned, raised)
    reqs,       \* per job: number of requests its session.get put on the wire
    off,        \* per job: write offset (in chunks) of its open file handle
    results,    \* cmd_download's result list, in collection order
    printed,    \* lines written to stdout by the Reporter
    dirs,       \* filesystem: the directories that exist
    files,      \* filesystem: regular files, path -> content (seq of chunks)
    files0,     \* the regular files as they were when this run started
    prev,       \* per job: how its call ended in the previous run
    held,       \* per job: the response and the file handle its call holds open
    registry,   \* the module's list objects: DATASET_MAP and ALL_DOWNLOADABLES
    rest        \* a rest_list call of harmonizome_api_cli.py (None: no call)

vars == <<args, rerun, mainpc, rc, jobs, session, pc, fut, reqs, off,
          results, printed, dirs, files, files0, prev, held, registry, rest>>

-----------------------------------------------------------------------------
(* Bounds of the model *)

MaxJobs == 2            \* jobs of one batch, and tokens of one option
MaxWorkers == 2         \* --workers
MaxPre == 1             \* paths that exist under outdir before the first run
MaxRetries == 1         \* --retries
MaxTokens == 2          \* tokens of one -t option list given to the compiler

\* a value that is not there yet (a pending future, no return value)
None == <<>>

-----------------------------------------------------------------------------
(* Python string helpers *)

Whitespace == {" ", "\t", "\n", "\r"}

CharAt(s, i) == SubSeq(s, i, i)

Contains(s, c) == \E i \in 1..Len(s) : CharAt(s, i) = c

\* index of the first occurrence of the character c in s (s contains c)
Find(s, c) == CHOOSE i \in 1..Len(s) :
                 /\ CharAt(s, i) = c
                 /\ \A k \in 1..(i - 1) : CharAt(s, k) # c

RECURSIVE LStrip(_)
LStrip(s) == IF Len(s) > 0 /\ CharAt(s, 1) \in Whitespace
             THEN LStrip(SubSeq(s, 2, Len(s)))
             ELSE s

RECURSIVE RStrip(_)
RStrip(s) == IF Len(s) > 0 /\ CharAt(s, Len(s)) \in Whitespace
             THEN RStrip(SubSeq(s, 1, Len(s) - 1))
             ELSE s

\* str.strip()
Strip(s) == LStrip(RStrip(s))

\* str.split(sep, 1) of a string that contains sep
Split1(s, sep) == <<SubSeq(s, 1, Find(s, sep) - 1),
                    SubSeq(s, Find(s, sep) + 1, Len(s))>>

\* str.endswith(suffix)
EndsWith(s, suffix) ==
    /\ Len(s) >= Len(suffix)
    /\ SubSeq(s, Len(s) - Len(suffix) + 1, Len(s)) = suffix

\* str.startswith(prefix)
StartsWith(s, prefix) ==
    /\ Len(s) >= Len(prefix)
    /\ SubSeq(s, 1, Len(prefix)) = prefix

Upper == "ABCDEFGHIJKLMNOPQRSTUVWXYZ"
LowerLetters == "abcdefghijklmnopqrstuvwxyz"

LowerChar(c) == IF Contains(Upper, c) THEN CharAt(LowerLetters, Find(Upper, c)) ELSE c

\* str.lower()
RECURSIVE Lower(_)
Lower(s) == IF Len(s) = 0 THEN s
            ELSE LowerChar(CharAt(s, 1)) \o Lower(SubSeq(s, 2, Len(s)))

-----------------------------------------------------------------------------
(* Module-level registries *)

DATASET_MAP ==
    ("gtextissue" :> "GTEx Tissue Gene Expression Profiles") @@
    ("gtexsample" :> "GTEx Tissue Sample Gene Expression Profiles") @@
    ("gtexeqtl" :> "GTEx eQTL") @@
    ("biogrid" :> "BioGRID Protein-Protein Interactions") @@
    ("encodetf" :> "ENCODE Transcription Factor Binding Site Profiles") @@
    ("encodehm" :> "ENCODE Histone Modification Site Profiles") @@
    ("reactome" :> "Reactome Pathways") @@
    ("reactomeppi" :> "Reactome Biomolecular Interactions") @@
    ("kegg" :> "KEGG Pathways") @@
    ("keggppi" :> "KEGG Biomolecular Interactions") @@
    ("hpatissuesmrna" :> "HPA Tissue Gene Expression Profiles") @@
    ("hpasamples" :> "HPA Tissue Sample Gene Expression Profiles") @@
    ("hprd" :> "HPRD Protein-Protein Interactions") @@
    ("omim" :> "OMIM Gene-Disease Associations") @@
    ("hpo" :> "HPO Gene-Disease Associations") @@
    ("gdsc" :> "GDSC Cell Line Gene Expression Profiles") @@
    ("tcga" :> "TCGA Signatures of Differentially Expressed Genes for Tumors") @@
    ("jasparpwm" :> "JASPAR Predicted Transcription Factor Targets") @@
    ("targetscan" :> "TargetScan Predicted Conserved microRNA Targets")

ALL_DOWNLOADABLES == <<
    "gene_attribute_matrix.txt.gz",
    "gene_attribute_edges.txt.gz",
    "gene_set_library_crisp.txt.gz",
    "gene_set_library_up_crisp.txt.gz",
    "gene_set_library_dn_crisp.txt.gz",
    "attribute_set_library_crisp.txt.gz",
    "attribute_set_library_up_crisp.txt.gz",
    "attribute_set_library_dn_crisp.txt.gz",
    "gene_similarity_matrix_cosine.txt.gz",
    "attribute_similarity_matrix_cosine.txt.gz",
    "gene_list_terms.txt.gz",
    "attribute_list_entries.txt.gz",
    "processing_script.m" >>

BASE_URL == "https://maayanlab.cloud/static/hdfs/harmonizome/data"

-----------------------------------------------------------------------------
(* Job compiler *)

\* faulty variant: "=" is looked for before the tab
parse_dataset_item_eq_first(s) ==
    IF Contains(s, "=")
    THEN <<Strip(Split1(s, "=")[1]), Strip(Split1(s, "=")[2])>>
    ELSE IF Contains(s, "\t")
    THEN <<Strip(Split1(s, "\t")[1]), Strip(Split1(s, "\t")[2])>>
    ELSE IF Strip(s) \in DOMAIN DATASET_MAP
    THEN <<DATASET_MAP[Strip(s)], Strip(s)>>
    ELSE <<Strip(s), Strip(s)>>

parse_dataset_item(s) ==
    IF Contains(s, "\t")
    THEN <<Strip(Split1(s, "\t")[1]), Strip(Split1(s, "\t")[2])>>
    ELSE IF Contains(s, "=")
    THEN <<Strip(Split1(s, "=")[1]), Strip(Split1(s, "=")[2])>>
    ELSE IF Strip(s) \in DOMAIN DATASET_MAP
    THEN <<DATASET_MAP[Strip(s)], Strip(s)>>
    ELSE <<Strip(s), Strip(s)>>

\* the lines of the datasets file, as a sequence of raw lines
RECURSIVE read_datasets_file(_)
read_datasets_file(lines) ==
    IF lines = <<>> THEN <<>>
    ELSE IF Strip(Head(lines)) = "" \/ StartsWith(Strip(Head(lines)), "#")
    THEN read_datasets_file(Tail(lines))
    ELSE <<parse_dataset_item(Strip(Head(lines)))>> \o read_datasets_file(Tail(lines))

RECURSIVE Expand(_)
Expand(tokens) ==
    IF tokens = <<>> THEN <<>>
    ELSE (IF Lower(Head(tokens)) = "all" THEN ALL_DOWNLOADABLES ELSE <<Head(tokens)>>)
         \o Expand(Tail(tokens))

RECURSIVE Uniq(_, _)
Uniq(seq, seen) ==
    IF seq = <<>> THEN <<>>
    ELSE IF Head(seq) \in seen THEN Uniq(Tail(seq), seen)
    ELSE <<Head(seq)>> \o Uniq(Tail(seq), seen \cup {Head(seq)})

\* faulty variant: the de-duplication is missing
flatten_without_dedup(tokens) == Expand(tokens)

flatten_downloadables(tokens) == Uniq(Expand(tokens), {})

\* the module's two registries as the import leaves them
Registry == [DATASET_MAP |-> DATASET_MAP, ALL_DOWNLOADABLES |-> ALL_DOWNLOADABLES]

\* faulty variant: `result` names the registry's own list object
ResultObjectAliased == "ALL_DOWNLOADABLES"

\* line 213: `result` names a new list object
ResultObject == "result"

\* lines 214-218 on the list objects: extend and append change the object
\* that `result` names, ALL_DOWNLOADABLES is only read
RECURSIVE flatten_lists(_, _)
flatten_lists(lists, tokens) ==
    IF tokens = <<>> THEN lists
    ELSE flatten_lists(
            [lists EXCEPT ![ResultObject] =
                IF Lower(Head(tokens)) = "all"
                THEN @ \o lists["ALL_DOWNLOADABLES"]
                ELSE Append(@, Head(tokens))],
            Tail(tokens))

\* the registries after a call of flatten_downloadables(tokens); lines
\* 219-226 build `seen` and `uniq` anew and read `result` only
AfterFlatten(reg, tokens) ==
    [reg EXCEPT !.ALL_DOWNLOADABLES =
        flatten_lists([ALL_DOWNLOADABLES |-> @, result |-> <<>>],
                      tokens)["ALL_DOWNLOADABLES"]]

RECURSIVE ParseAll(_)
ParseAll(items) ==
    IF items = <<>> THEN <<>>
    ELSE <<parse_dataset_item(Head(items))>> \o ParseAll(Tail(items))

\* lines 231-235: command-line selectors, then the selectors of the file
Datasets(a) ==
    ParseAll(a.dataset) \o
    (IF a.datasets_file.given THEN read_datasets_file(a.datasets_file.lines) ELSE <<>>)

\* lines 249-252: selectors outer loop, downloadables inner loop
RECURSIVE Pair(_, _)
Pair(d, dls) ==
    IF dls = <<>> THEN <<>>
    ELSE <<<<d[1], d[2], Head(dls)>>>> \o Pair(d, Tail(dls))

\* faulty variant: downloadables outer loop, selectors inner loop
RECURSIVE CrossDownloadableMajor(_, _)
CrossDownloadableMajor(datasets, dls) ==
    IF dls = <<>> THEN <<>>
    ELSE [i \in 1..Len(datasets) |-> <<datasets[i][1], datasets[i][2], Head(dls)>>]
         \o CrossDownloadableMajor(datasets, Tail(dls))

RECURSIVE Cross(_, _)
Cross(datasets, dls) ==
    IF datasets = <<>> THEN <<>>
    ELSE Pair(Head(datasets), dls) \o Cross(Tail(datasets), dls)

-----------------------------------------------------------------------------
(* Paths, URLs and the remote server *)

\* Path(args.outdir or ".").resolve(): one fixed output directory
OUTDIR == "out"

dataset_dir(job) == OUTDIR \o "/" \o job[1]

\* line 166 and line 178: the predicate that selects path and write variant
GzVariant(job, decompress) == decompress /\ EndsWith(job[3], ".gz")

\* faulty variant: the suffix is kept although the gzip variant writes text
TargetOfUnstripped(job, decompress) == dataset_dir(job) \o "/" \o job[3]

TargetOf(job, decompress) ==
    IF GzVariant(job, decompress)
    THEN dataset_dir(job) \o "/" \o SubSeq(job[3], 1, Len(job[3]) - 3)
    ELSE dataset_dir(job) \o "/" \o job[3]

build_url(dataset_path, downloadable) ==
    BASE_URL \o "/" \o dataset_path \o "/" \o downloadable

\* what the server holds at a URL: a body streamed as a sequence of chunks
Body(url) == <<url>>

\* gzip + utf-8 decoding of one chunk
Decode(chunk) == "text(" \o chunk \o ")"

\* the chunks a job writes to its target, in order
Payload(job, decompress) ==
    IF GzVariant(job, decompress)
    THEN [i \in 1..Len(Body(build_url(job[2], job[3]))) |->
             Decode(Body(build_url(job[2], job[3]))[i])]
    ELSE Body(build_url(job[2], job[3]))

\* status codes a response can carry
Statuses == {200, 404}

\* the wider range of status codes the transport is exercised with
AllStatuses == {200, 204, 404, 413, 429, 503}

\* line 100
status_forcelist == {429, 500, 502, 503, 504}

\* urllib3's Retry.RETRY_AFTER_STATUS_CODES, which line 98
\* (respect_retry_after_header=True) brings into play
RETRY_AFTER_STATUS_CODES == {413, 429, 503}

\* lines 94-102: Retry.is_retry for a GET (an allowed method) of a Retry
\* object with `total` retries left, on a response with this status code
\* and with or without a Retry-After header
is_retry(total, status_code, has_retry_after) ==
    \/ status_code \in status_forcelist
    \/ total # 0 /\ has_retry_after /\ status_code \in RETRY_AFTER_STATUS_CODES

\* faulty variant: any 2xx status passes
StatusOk2xx(status_code) == status_code \in 200..299

\* line 175
\* faulty variant: the status is not checked before the body is written
StatusOkAlways(status_code) == TRUE

StatusOk(status_code) == status_code = 200

\* content of a file that was on disk before the first run
OldContent == <<"old">>

Hole == "\\0"

\* a write of one chunk through a handle positioned at chunk offset o
WriteAt(content, o, chunk) ==
    IF o < Len(content)
    THEN [content EXCEPT ![o + 1] = chunk]
    ELSE content \o [i \in 1..(o - Len(content)) |-> Hole] \o <<chunk>>

\* faulty variant: is_dir() in place of exists()
ExistsAsDir(p) == p \in dirs

\* Path.exists()
Exists(p) == p \in dirs \/ p \in DOMAIN files

-----------------------------------------------------------------------------
(* Futures and results *)

Returned(job, success, msg) ==
    [kind |-> "returned", value |-> <<job[1], job[2], job[3], success, msg>>]

Raised(exc) == [kind |-> "raised", value |-> <<exc>>]

Pending == [kind |-> "pending", value |-> None]

\* faulty variant: the except clause is missing
Uncaught(job, exc) == Raised(exc)

\* lines 196-197: the exception is turned into a failure result
Caught(job, exc) == Returned(job, FALSE, exc)

JobIds == 1..Len(jobs)

Running(j) == pc[j] \in {"check", "get", "open", "write"}

\* faulty variant: only the calls that hold a file open are counted
NumWriting == Cardinality({j \in JobIds : pc[j] = "write"})

NumRunning == Cardinality({j \in JobIds : Running(j)})

\* faulty variant: one retry more than configured
LeftOneMore(j) == args.retries + 1 - reqs[j]

\* lines 95-97: the retries the Retry object of job j's request has left
\* (total, read and connect start equal, and total counts every retry)
Left(j) == args.retries - reqs[j]

\* faulty variants of the skip policy: the flag inverted, the check dropped,
\* the existence test inverted
SkipPolicyInverted(exists, force) == exists /\ force

SkipPolicyNever(exists, force) == FALSE

SkipPolicyNotExists(exists, force) == ~exists /\ ~force

\* faulty variant: force is not consulted
SkipPolicyIgnoresForce(exists, force) == exists

\* line 169
SkipPolicy(exists, force) == exists /\ ~force

\* line 236
NoDatasets(datasets) == datasets = <<>>

\* faulty variant: the second check is missing
NoDownloadablesUnchecked(downloadables) == FALSE

\* line 241
NoDownloadables(downloadables) == downloadables = <<>>

\* how a call of download_one ended: "success", "failure" or "raised"
Outcome(f) ==
    IF f.kind = "returned" THEN (IF f.value[4] THEN "success" ELSE "failure")
    ELSE f.kind

\* faulty variant: the collection stops at the first failure
AllCollectedOrFailed ==
    \/ Len(results) = Len(jobs)
    \/ \E i \in 1..Len(results) : ~results[i][2][4]

\* lines 274-275: as_completed is exhausted
AllCollected == Len(results) = Len(jobs)

\* faulty variant: the failures are not looked at
ExitStatusZero(fail) == 0

\* line 286
ExitStatus(fail) == IF fail = <<>> THEN 0 ELSE 1

\* lines 278-279
RECURSIVE Filter(_, _)
Filter(rs, flag) ==
    IF rs = <<>> THEN <<>>
    ELSE (IF Head(rs)[4] = flag THEN <<Head(rs)>> ELSE <<>>) \o Filter(Tail(rs), flag)

\* line 282-283
StatusLine(r) == <<IF r[4] THEN "OK" ELSE "FAIL", r[1], r[2], r[3], r[5]>>

-----------------------------------------------------------------------------
(* Inputs *)

RECURSIVE SeqsUpTo(_, _)
SeqsUpTo(S, n) ==
    IF n = 0 THEN {<<>>}
    ELSE SeqsUpTo(S, n - 1) \cup
         {Append(s, x) : s \in {t \in SeqsUpTo(S, n - 1) : Len(t) = n - 1}, x \in S}

DatasetTokens == {"A=a"}

\* --datasets-file: absent, or a file with these lines
DatasetFiles == {[given |-> FALSE, lines |-> <<>>],
                 [given |-> TRUE, lines |-> <<"# datasets", "", " kegg">>]}

DownloadableTokens == {"x.gz", "x"}

ArgSet ==
    {a \in [dataset : SeqsUpTo(DatasetTokens, MaxJobs),
            datasets_file : DatasetFiles,
            downloadable : SeqsUpTo(DownloadableTokens, Cardinality(DownloadableTokens)),
            decompress : BOOLEAN,
            force : BOOLEAN,
            workers : 1..MaxWorkers,
            retries : {0}] :
        /\ Len(Datasets(a)) <= MaxJobs
        /\ Len(Cross(Datasets(a), flatten_downloadables(a.downloadable))) <= MaxJobs}

\* job list the arguments compile to
JobsOf(a) == Cross(Datasets(a), flatten_downloadables(a.downloadable))

\* the paths under outdir the batch will touch
Candidates(a) ==
    {dataset_dir(JobsOf(a)[i]) : i \in 1..Len(JobsOf(a))} \cup
    {TargetOf(JobsOf(a)[i], a.decompress) : i \in 1..Len(JobsOf(a))}

\* a regular file occupies p, so nothing exists below p
Below(p, q) == Len(q) > Len(p) /\ SubSeq(q, 1, Len(p) + 1) = p \o "/"

InitialFiles(a) ==
    {P \in SUBSET Candidates(a) :
        /\ Cardinality(P) <= MaxPre
        /\ \A p \in P, q \in P : ~Below(p, q)}

\* the directories above the given files
ParentsOf(P, a) ==
    (IF P = {} THEN {} ELSE {OUTDIR}) \cup
    {dataset_dir(JobsOf(a)[i]) : i \in {k \in 1..Len(JobsOf(a)) :
                                    TargetOf(JobsOf(a)[k], a.decompress) \in P}}

Init ==
    /\ args \in ArgSet
    /\ \E P \in InitialFiles(args) :
        /\ files = [p \in P |-> OldContent]
        /\ dirs = ParentsOf(P, args)
    /\ files0 = files
    /\ rerun = FALSE
    /\ mainpc = "start"
    /\ rc = None
    /\ jobs = <<>>
    /\ session = FALSE
    /\ pc = <<>>
    /\ fut = <<>>
    /\ reqs = <<>>
    /\ off = <<>>
    /\ results = <<>>
    /\ printed = <<>>
    /\ prev = <<>>
    /\ held = <<>>
    /\ registry = Registry
    /\ rest = None

-----------------------------------------------------------------------------
(* cmd_download, main thread *)

\* lines 229-273: collect the selectors, expand the downloadables, reject an
\* empty list, create outdir, build the work list, make the session and
\* submit every job to the pool.  The submissions are one step: a job that
\* is not yet submitted behaves like one waiting in the pool's queue.
Compile ==
    /\ mainpc = "start"
    /\ IF NoDatasets(Datasets(args))
       THEN /\ printed' = Append(printed, <<"ERROR", "No datasets provided">>)
            /\ rc' = <<2>>
            /\ mainpc' = "returned"
            /\ UNCHANGED <<jobs, session, pc, fut, reqs, off, dirs, held, registry>>
       ELSE IF NoDownloadables(flatten_downloadables(args.downloadable))
       THEN /\ printed' = Append(printed, <<"ERROR", "No downloadables provided">>)
            /\ rc' = <<2>>
            /\ mainpc' = "returned"
            /\ registry' = AfterFlatten(registry, args.downloadable)
            /\ UNCHANGED <<jobs, session, pc, fut, reqs, off, dirs, held>>
       ELSE /\ dirs' = dirs \cup {OUTDIR}
            /\ registry' = AfterFlatten(registry, args.downloadable)
            /\ jobs' = JobsOf(args)
            /\ printed' = Append(printed, <<"HEADER", Len(Datasets(args)),
                                            Len(JobsOf(args)), args.workers>>)
            /\ session' = TRUE
            /\ pc' = [j \in 1..Len(JobsOf(args)) |-> "pending"]
            /\ fut' = [j \in 1..Len(JobsOf(args)) |-> Pending]
            /\ reqs' = [j \in 1..Len(JobsOf(args)) |-> 0]
            /\ off' = [j \in 1..Len(JobsOf(args)) |-> 0]
            /\ held' = [j \in 1..Len(JobsOf(args)) |-> {}]
            /\ mainpc' = "collect"
            /\ UNCHANGED rc
    /\ UNCHANGED <<args, rest, rerun, results, files, files0, prev>>

\* lines 274-275: as_completed yields a finished future that it has not
\* yielded yet; fut.result() returns its value or re-raises its exception
Collect(j) ==
    /\ mainpc = "collect"
    /\ pc[j] = "done"
    /\ \A i \in 1..Len(results) : results[i][1] # j
    /\ IF fut[j].kind = "raised"
       THEN /\ mainpc' = "unwinding"
            /\ UNCHANGED results
       ELSE /\ results' = Append(results, <<j, fut[j].value>>)
            /\ UNCHANGED mainpc
    /\ UNCHANGED <<args, registry, rest, held, rerun, rc, jobs, session, pc, fut, reqs, off, printed,
                   dirs, files, files0, prev>>

\* line 259: the exception leaves the with block, whose exit waits for the
\* pool (shutdown(wait=True)) and then lets the exception leave cmd_download
Unwind ==
    /\ mainpc = "unwinding"
    /\ \A j \in JobIds : pc[j] = "done"
    /\ mainpc' = "crashed"
    /\ UNCHANGED <<args, registry, rest, held, rerun, rc, jobs, session, pc, fut, reqs, off, results,
                   printed, dirs, files, files0, prev>>

Values(rs) == [i \in 1..Len(rs) |-> rs[i][2]]

\* lines 277-286: the Reporter
Summarize ==
    /\ mainpc = "collect"
    /\ AllCollected
    /\ printed' = printed
                  \o [i \in 1..Len(results) |-> StatusLine(Values(results)[i])]
                  \o << <<"DONE", Len(Filter(Values(results), TRUE)),
                          Len(Filter(Values(results), FALSE))>> >>
    /\ rc' = <<ExitStatus(Filter(Values(results), FALSE))>>
    /\ mainpc' = "returned"
    /\ UNCHANGED <<args, registry, rest, held, rerun, jobs, session, pc, fut, reqs, off, results,
                   dirs, files, files0, prev>>

\* the same command line is run again on the disk the last run left
Rerun ==
    /\ mainpc \in {"returned", "crashed"}
    /\ rerun' = TRUE
    /\ prev' = [j \in JobIds |-> Outcome(fut[j])]
    /\ files0' = files
    /\ mainpc' = "start"
    /\ rc' = None
    /\ jobs' = <<>>
    /\ session' = FALSE
    /\ pc' = <<>>
    /\ fut' = <<>>
    /\ reqs' = <<>>
    /\ off' = <<>>
    /\ results' = <<>>
    /\ printed' = <<>>
    /\ held' = <<>>
    /\ UNCHANGED <<args, registry, rest, dirs, files>>

-----------------------------------------------------------------------------
(* download_one, one call per job, run by a pool thread *)

\* faulty variant: the response is not managed by a with statement, so
\* leaving download_one closes the file handle only
ClosingFileOnly(h) == h \ {"file"}

\* lines 174, 180, 183-185 and 190: the response, its raw stream, the
\* decoding reader and the target's file handle are all managed by with
\* statements, whose exit closes them on a return and on an exception alike
Closing(h) == {}

\* faulty variant: mkdir without exist_ok, which raises on any existing path
MkdirRaisesIfPresent(p) == p \in DOMAIN files \/ p \in dirs

\* line 142, p.mkdir(parents=True, exist_ok=True): an existing directory is
\* accepted, whoever created it; a regular file at p raises FileExistsError
MkdirRaises(p) == p \in DOMAIN files

Finish(j, f) ==
    /\ pc' = [pc EXCEPT ![j] = "done"]
    /\ fut' = [fut EXCEPT ![j] = f]

\* a pool thread takes the oldest queued job and runs lines 162-163:
\* ensure_dir(dataset_dir); mkdir raises FileExistsError when the path is
\* a regular file, and the exception leaves download_one
Start(j) ==
    /\ mainpc \in {"collect", "unwinding"}
    /\ pc[j] = "pending"
    /\ \A i \in 1..(j - 1) : pc[i] # "pending"
    /\ NumRunning < args.workers
    /\ IF MkdirRaises(dataset_dir(jobs[j]))
       THEN /\ Finish(j, Raised("FileExistsError"))
            /\ UNCHANGED dirs
       ELSE /\ dirs' = dirs \cup {dataset_dir(jobs[j])}
            /\ pc' = [pc EXCEPT ![j] = "check"]
            /\ UNCHANGED fut
    /\ UNCHANGED <<args, registry, rest, held, rerun, mainpc, rc, jobs, session, reqs, off, results,
                   printed, files, files0, prev>>

\* lines 165-170: the skip policy
Check(j) ==
    /\ pc[j] = "check"
    /\ IF SkipPolicy(Exists(TargetOf(jobs[j], args.decompress)), args.force)
       THEN Finish(j, Returned(jobs[j], TRUE, "exists, skipped"))
       ELSE /\ pc' = [pc EXCEPT ![j] = "get"]
            /\ UNCHANGED fut
    /\ UNCHANGED <<args, registry, rest, held, rerun, mainpc, rc, jobs, session, reqs, off, results,
                   printed, dirs, files, files0, prev>>

\* lines 172-176: one request of session.get is answered.  The transport
\* re-issues the request when the status is retry-eligible and a retry is
\* left, raises RetryError (caught at line 196) when none is left, and
\* otherwise hands the response to download_one, which checks its status
GetResponse(j, status, has_retry_after) ==
    /\ pc[j] = "get"
    /\ reqs' = [reqs EXCEPT ![j] = @ + 1]
    /\ IF is_retry(Left(j), status, has_retry_after)
       THEN /\ IF Left(j) > 0
               THEN UNCHANGED <<pc, fut>>
               ELSE Finish(j, Caught(jobs[j], "RetryError"))
            /\ UNCHANGED held
       ELSE IF ~StatusOk(status)
       THEN /\ Finish(j, Returned(jobs[j], FALSE, "HTTP " \o ToString(status)))
            /\ held' = [held EXCEPT ![j] = Closing(@ \cup {"response"})]
       ELSE /\ pc' = [pc EXCEPT ![j] = "open"]
            /\ held' = [held EXCEPT ![j] = @ \cup {"response"}]
            /\ UNCHANGED fut
    /\ UNCHANGED <<args, registry, rest, rerun, mainpc, rc, jobs, session, off, results,
                   printed, dirs, files, files0, prev>>

\* line 174: one request of session.get meets a connect or read failure
\* (the timeout included); the transport re-issues it while a retry is
\* left, and raises ConnectionError (caught at line 196) when none is
GetError(j) ==
    /\ pc[j] = "get"
    /\ reqs' = [reqs EXCEPT ![j] = @ + 1]
    /\ IF Left(j) > 0
       THEN UNCHANGED <<pc, fut>>
       ELSE Finish(j, Caught(jobs[j], "ConnectionError"))
    /\ UNCHANGED <<args, registry, rest, held, rerun, mainpc, rc, jobs, session, off, results,
                   printed, dirs, files, files0, prev>>

\* lines 183-185 and 190: target.open("w") / target.open("wb") creates the
\* file or truncates it; opening a directory raises inside the try
Open(j) ==
    /\ pc[j] = "open"
    /\ IF TargetOf(jobs[j], args.decompress) \in dirs
       THEN /\ Finish(j, Caught(jobs[j], "IsADirectoryError"))
            /\ held' = [held EXCEPT ![j] = Closing(@)]
            /\ UNCHANGED <<files, off>>
       ELSE /\ files' = [p \in DOMAIN files \cup {TargetOf(jobs[j], args.decompress)} |->
                            IF p = TargetOf(jobs[j], args.decompress) THEN <<>>
                            ELSE files[p]]
            /\ off' = [off EXCEPT ![j] = 0]
            /\ held' = [held EXCEPT ![j] = @ \cup {"file"}]
            /\ pc' = [pc EXCEPT ![j] = "write"]
            /\ UNCHANGED fut
    /\ UNCHANGED <<args, registry, rest, rerun, mainpc, rc, jobs, session, reqs, results,
                   printed, dirs, files0, prev>>

\* lines 186-187 and 191-195: the next chunk is read (and decoded) and
\* written at the handle's offset; after the last chunk the stream is
\* exhausted, the with blocks close and line 195 returns
WriteChunk(j) ==
    /\ pc[j] = "write"
    /\ off[j] < Len(Payload(jobs[j], args.decompress))
    /\ files' = [files EXCEPT ![TargetOf(jobs[j], args.decompress)] =
                    WriteAt(@, off[j], Payload(jobs[j], args.decompress)[off[j] + 1])]
    /\ off' = [off EXCEPT ![j] = @ + 1]
    /\ IF off[j] + 1 = Len(Payload(jobs[j], args.decompress))
       THEN /\ Finish(j, Returned(jobs[j], TRUE, "ok"))
            /\ held' = [held EXCEPT ![j] = Closing(@)]
       ELSE UNCHANGED <<pc, fut, held>>
    /\ UNCHANGED <<args, registry, rest, rerun, mainpc, rc, jobs, session, reqs, results,
                   printed, dirs, files0, prev>>

\* the read, the decoding or the write of the next chunk raises: line 196
WriteError(j) ==
    /\ pc[j] = "write"
    /\ off[j] < Len(Payload(jobs[j], args.decompress))
    /\ Finish(j, Caught(jobs[j],
                 IF GzVariant(jobs[j], args.decompress) THEN "BadGzipFile"
                 ELSE "ChunkedEncodingError"))
    /\ held' = [held EXCEPT ![j] = Closing(@)]
    /\ UNCHANGED <<args, registry, rest, rerun, mainpc, rc, jobs, session, reqs, off, results,
                   printed, dirs, files, files0, prev>>

-----------------------------------------------------------------------------

Next ==
    \/ Compile
    \/ \E j \in JobIds : Collect(j)
    \/ Unwind
    \/ Summarize
    \/ Rerun
    \/ \E j \in JobIds : Start(j)
    \/ \E j \in JobIds : Check(j)
    \/ \E j \in JobIds, status \in Statuses, has_retry_after \in BOOLEAN :
          GetResponse(j, status, has_retry_after)
    \/ \E j \in JobIds : GetError(j)
    \/ \E j \in JobIds : Open(j)
    \/ \E j \in JobIds : WriteChunk(j)
    \/ \E j \in JobIds : WriteError(j)

Spec == Init /\ [][Next]_vars

-----------------------------------------------------------------------------
(* The batch under fair scheduling: the process does not stop while the   *)
(* main thread or a pool thread can take a step, and every request and    *)
(* every read or write ends.                                               *)

JobStep(j) ==
    /\ j \in JobIds
    /\ \/ Start(j)
       \/ Check(j)
       \/ \E status \in Statuses, has_retry_after \in BOOLEAN :
             GetResponse(j, status, has_retry_after)
       \/ GetError(j)
       \/ Open(j)
       \/ WriteChunk(j)
       \/ WriteError(j)

MainStep == Compile \/ (\E j \in JobIds : Collect(j)) \/ Unwind \/ Summarize

ProgramStep == MainStep \/ \E j \in JobIds : JobStep(j)

FairSpec == Spec /\ WF_vars(ProgramStep)

-----------------------------------------------------------------------------
(* One job against a server that answers with any status, with or without *)
(* a Retry-After header, and a transport with retries                      *)

TransportArgSet ==
    [dataset : {<<"A=a">>},
     datasets_file : {[given |-> FALSE, lines |-> <<>>]},
     downloadable : {<<"x.gz">>, <<"x">>},
     decompress : BOOLEAN,
     force : BOOLEAN,
     workers : 1..MaxWorkers,
     retries : 0..MaxRetries]

InitTransport ==
    /\ args \in TransportArgSet
    /\ \E P \in InitialFiles(args) :
        /\ files = [p \in P |-> OldContent]
        /\ dirs = ParentsOf(P, args)
    /\ files0 = files
    /\ rerun = FALSE
    /\ mainpc = "start"
    /\ rc = None
    /\ jobs = <<>>
    /\ session = FALSE
    /\ pc = <<>>
    /\ fut = <<>>
    /\ reqs = <<>>
    /\ off = <<>>
    /\ results = <<>>
    /\ printed = <<>>
    /\ prev = <<>>
    /\ held = <<>>
    /\ registry = Registry
    /\ rest = None

NextTransport ==
    \/ Compile
    \/ \E j \in JobIds : Collect(j)
    \/ Unwind
    \/ Summarize
    \/ Rerun
    \/ \E j \in JobIds : Start(j)
    \/ \E j \in JobIds : Check(j)
    \/ \E j \in JobIds, status \in AllStatuses, has_retry_after \in BOOLEAN :
          GetResponse(j, status, has_retry_after)
    \/ \E j \in JobIds : GetError(j)
    \/ \E j \in JobIds : Open(j)
    \/ \E j \in JobIds : WriteChunk(j)
    \/ \E j \in JobIds : WriteError(j)

TransportSpec == InitTransport /\ [][NextTransport]_vars

-----------------------------------------------------------------------------
(* The job compiler alone, on selector and downloadable tokens of every   *)
(* form                                                                    *)

SelectorTokens ==
    {"kegg", " kegg", "A=a", "A\ta", "A=b\tc", "A = a", "zz", "a=b=c"}

CompilerDownloadableTokens ==
    {"all", "ALL", "gene_attribute_matrix.txt.gz", "processing_script.m", "x"}

\* a datasets file with a comment, a short key, a blank line and a pair
SelectorFiles ==
    {[given |-> TRUE, lines |-> <<>>],
     [given |-> TRUE, lines |-> <<"# keys", "kegg", "", "B\tb">>]}

\* every selector list against two downloadable lists, every downloadable
\* list against a single and a repeated selector, and command-line
\* selectors together with a datasets file
CompilerArgSet ==
    [dataset : SeqsUpTo(SelectorTokens, MaxTokens),
     datasets_file : {[given |-> FALSE, lines |-> <<>>]},
     downloadable : {<<"x">>, <<"ALL", "x">>},
     decompress : {FALSE},
     force : {FALSE},
     workers : {1},
     retries : {0}]
    \cup
    [dataset : {<<"A=a">>, <<"A=a", "A=a">>},
     datasets_file : {[given |-> FALSE, lines |-> <<>>]},
     downloadable : SeqsUpTo(CompilerDownloadableTokens, MaxTokens),
     decompress : {FALSE},
     force : {FALSE},
     workers : {1},
     retries : {0}]
    \cup
    [dataset : {<<>>, <<"A=a">>, <<"zz", "A=a">>},
     datasets_file : SelectorFiles,
     downloadable : {<<"x">>, <<"ALL", "x">>},
     decompress : {FALSE},
     force : {FALSE},
     workers : {1},
     retries : {0}]

InitCompiler ==
    /\ args \in CompilerArgSet
    /\ files = [p \in {} |-> OldContent]
    /\ dirs = {}
    /\ files0 = files
    /\ rerun = FALSE
    /\ mainpc = "start"
    /\ rc = None
    /\ jobs = <<>>
    /\ session = FALSE
    /\ pc = <<>>
    /\ fut = <<>>
    /\ reqs = <<>>
    /\ off = <<>>
    /\ results = <<>>
    /\ printed = <<>>
    /\ prev = <<>>
    /\ held = <<>>
    /\ registry = Registry
    /\ rest = None

\* lines 202-209, cmd_list: prints the registries (sorted() builds a new
\* list of DATASET_MAP's items, ALL_DOWNLOADABLES is iterated) and returns 0
cmd_list ==
    /\ mainpc = "start"
    /\ printed' = printed \o <<<<"KEYS", DOMAIN registry.DATASET_MAP>>>>
                          \o [i \in 1..Len(registry.ALL_DOWNLOADABLES) |->
                                 <<"COMMON", registry.ALL_DOWNLOADABLES[i]>>]
    /\ rc' = <<0>>
    /\ mainpc' = "returned"
    /\ UNCHANGED <<args, registry, rest, held, rerun, jobs, session, pc, fut,
                   reqs, off, results, dirs, files, files0, prev>>

NextCompiler == Compile \/ cmd_list \/ Rerun

CompilerSpec == InitCompiler /\ [][NextCompiler]_vars

-----------------------------------------------------------------------------
(* Vocabulary of the properties *)

Target(j) == TargetOf(jobs[j], args.decompress)

Skipped(j) == Returned(jobs[j], TRUE, "exists, skipped")

Ok(j) == Returned(jobs[j], TRUE, "ok")

BatchOver == mainpc \in {"returned", "crashed"}

Reported(j) ==
    /\ \E i \in 1..Len(results) : results[i] = <<j, fut[j].value>>
    /\ \E i \in 1..Len(printed) : printed[i] = StatusLine(fut[j].value)

TallyPrinted ==
    /\ printed # <<>>
    /\ printed[Len(printed)][1] = "DONE"

\* the command line names no selector: no -d, and no effective line in the file
NoSelectorsGiven(a) ==
    /\ a.dataset = <<>>
    /\ a.datasets_file.given =>
          \A i \in 1..Len(a.datasets_file.lines) :
              \/ Strip(a.datasets_file.lines[i]) = ""
              \/ CharAt(Strip(a.datasets_file.lines[i]), 1) = "#"

\* what job k does when nothing but k touches the disk of the run's start
SoloConsistent(k) ==
    IF dataset_dir(jobs[k]) \in DOMAIN files0
    THEN fut[k].kind = "raised"
    ELSE IF Target(k) \in DOMAIN files0 /\ ~args.force
    THEN fut[k] = Skipped(k)
    ELSE fut[k].kind = "returned" /\ fut[k] # Skipped(k)

-----------------------------------------------------------------------------
(* Properties *)

\* C1: when cmd_download has run the Reporter, the result list holds
\* exactly one result per submitted job -- as many results as jobs, every
\* job once, each the value of that job's future -- in whatever order the
\* jobs completed and whatever their outcomes.
ExactlyOneResultPerJob ==
    (mainpc = "returned" /\ jobs # <<>>) =>
        /\ Len(results) = Len(jobs)
        /\ \A j \in JobIds :
              Cardinality({i \in 1..Len(results) : results[i][1] = j}) = 1
        /\ \A i \in 1..Len(results) :
              /\ results[i][1] \in JobIds
              /\ results[i][2] = fut[results[i][1]].value

\* C1 witness: two jobs collected against submission order, one failed.
OutOfOrderResultsReported ==
    /\ mainpc = "returned"
    /\ Len(jobs) = 2
    /\ Len(results) = 2
    /\ results[1][1] = 2
    /\ ~results[1][2][4]
    /\ results[2][2][4]

\* C2 (as claimed): no error met by a single job while download_one runs
\* terminates the batch: no exception leaves download_one, cmd_download is
\* never unwound by one, and a scheduled batch that is over has collected
\* every result, printed the tally and returned 0 or 1.
JobErrorNeverTerminatesBatch ==
    /\ \A j \in JobIds : fut[j].kind # "raised"
    /\ mainpc \notin {"unwinding", "crashed"}
    /\ (BatchOver /\ jobs # <<>>) =>
          /\ Len(results) = Len(jobs)
          /\ TallyPrinted
          /\ rc \in {<<0>>, <<1>>}

\* C3 (as claimed): in a batch where job J fails, every other job K runs to
\* completion, K's result is what K produces on its own from the disk of
\* the run's start, a target K reports as written holds K's output, and
\* K's result is reported.
SiblingsUnaffectedByFailure ==
    \A J \in JobIds, K \in JobIds :
        (J # K /\ pc[J] = "done" /\ Outcome(fut[J]) \in {"failure", "raised"}) =>
            /\ pc[K] = "done" => SoloConsistent(K)
            /\ BatchOver =>
                  /\ pc[K] = "done"
                  /\ fut[K] = Ok(K) => files[Target(K)] = Payload(jobs[K], args.decompress)
                  /\ fut[K].kind = "returned" => Reported(K)

\* C4 (as claimed): no two jobs of a compiled job list have the same
\* target path, and no two download_one calls have the same file open.
TargetWrittenByOneJob ==
    \A i \in JobIds, j \in JobIds :
        i # j =>
            /\ Target(i) # Target(j)
            /\ ~(pc[i] = "write" /\ pc[j] = "write" /\ Target(i) = Target(j))

\* C5: the step of download_one that finds its target on disk with
\* force=false returns success "exists, skipped", has issued no request
\* and leaves files and directories as they are.
SkipLeavesTargetAlone ==
    [][\A j \in JobIds :
          (/\ pc[j] = "check"
           /\ j \in DOMAIN pc'
           /\ pc'[j] # "check"
           /\ ~args.force
           /\ Exists(Target(j)))
          => /\ pc'[j] = "done"
             /\ fut'[j] = Skipped(j)
             /\ reqs'[j] = 0
             /\ reqs' = reqs
             /\ files' = files
             /\ dirs' = dirs]_vars

\* C5 witness: a target that was on disk before the first run was skipped
\* and still holds its content.
PreExistingTargetSkipped ==
    \E j \in JobIds :
        /\ ~rerun
        /\ ~args.force
        /\ Target(j) \in DOMAIN files0
        /\ fut[j] = Skipped(j)
        /\ reqs[j] = 0
        /\ files[Target(j)] = OldContent

\* C6: in a re-run with force=false a job that succeeded in the previous
\* run issues no request, never opens its target, ends as success "exists,
\* skipped" and is reported so by the Reporter; and no job opens a target
\* that was on disk when the re-run started.
SecondRunSkipsSucceeded ==
    (rerun /\ ~args.force /\ prev # <<>>) =>
        /\ \A j \in JobIds :
              prev[j] = "success" =>
                  /\ pc[j] \in {"pending", "check", "done"}
                  /\ reqs[j] = 0
                  /\ pc[j] = "done" => fut[j] = Skipped(j)
                  /\ mainpc = "returned" => Reported(j)
        /\ \A j \in JobIds :
              Target(j) \in DOMAIN files0 => pc[j] \notin {"get", "open", "write"}

\* C6 witness: a re-run after a partial failure has reported a job that
\* succeeded before as skipped.
RerunAfterPartialFailureReported ==
    /\ rerun
    /\ ~args.force
    /\ mainpc = "returned"
    /\ \E j \in JobIds, k \in JobIds :
          /\ prev[j] = "success"
          /\ prev[k] = "failure"
          /\ fut[j] = Skipped(j)
          /\ Reported(j)

ExitStatusContract ==
    /\ mainpc = "returned" =>
          /\ rc \in {<<0>>, <<1>>, <<2>>}
          /\ rc = <<0>> <=> (jobs # <<>> /\ \A j \in JobIds : Outcome(fut[j]) = "success")
          /\ rc = <<1>> <=> (\E j \in JobIds : Outcome(fut[j]) = "failure")
          /\ rc = <<2>> <=> (NoSelectorsGiven(args) \/ args.downloadable = <<>>)
    /\ mainpc # "returned" => rc = None

\* C8 witness: a batch with a success and a failure has returned 1.
MixedBatchReturnedOne ==
    /\ mainpc = "returned"
    /\ rc = <<1>>
    /\ \E j \in JobIds, k \in JobIds :
          Outcome(fut[j]) = "success" /\ Outcome(fut[k]) = "failure"

\* C9 (as claimed): whatever force and decompress are, a target that held
\* the complete output of a successful fetch of the previous run still
\* holds it after a re-run in which jobs fail.
EarlierOutputSurvivesAnyRun ==
    (rerun /\ BatchOver /\ prev # <<>>
     /\ \E k \in JobIds : Outcome(fut[k]) \in {"failure", "raised"}) =>
        \A j \in JobIds :
            (/\ prev[j] = "success"
             /\ Target(j) \in DOMAIN files0
             /\ files0[Target(j)] = Payload(jobs[j], args.decompress))
            => files[Target(j)] = files0[Target(j)]

\* C9 (amended): with force=false every file that is on disk when a run
\* starts holds the same content throughout the run and after it, whatever
\* jobs fail.
ExistingOutputSurvivesUnforcedRun ==
    ~args.force =>
        \A p \in DOMAIN files0 : p \in DOMAIN files /\ files[p] = files0[p]

\* C9 witness: a re-run without force in which a job failed has ended, and
\* the output a job fetched in the previous run is still complete.
OutputKeptAcrossFailingRerun ==
    /\ rerun
    /\ ~args.force
    /\ BatchOver
    /\ \E j \in JobIds, k \in JobIds :
          /\ prev[j] = "success"
          /\ Target(j) \in DOMAIN files0
          /\ files[Target(j)] = Payload(jobs[j], args.decompress)
          /\ Outcome(fut[k]) = "failure"

\* C10: when no selector or no downloadable is given, cmd_download returns
\* 2 having built no job list, created no session, issued no request and
\* created no directory or file.
ConfigErrorDoesNoWork ==
    (NoSelectorsGiven(args) \/ args.downloadable = <<>>) =>
        /\ mainpc \in {"start", "returned"}
        /\ mainpc = "returned" => rc = <<2>>
        /\ jobs = <<>>
        /\ session = FALSE
        /\ reqs = <<>>
        /\ pc = <<>>
        /\ dirs = {}
        /\ files = files0
        /\ DOMAIN files = {}

\* C10 witness: selectors were given, the downloadable list was empty, and
\* cmd_download has returned 2.
EmptyDownloadablesRejected ==
    /\ ~NoSelectorsGiven(args)
    /\ args.downloadable = <<>>
    /\ mainpc = "returned"
    /\ rc = <<2>>

\* the elements of a sequence
Range(seq) == {seq[i] : i \in 1..Len(seq)}

\* C11 (as claimed): the job list built by cmd_download has as many jobs as
\* there are distinct selectors times distinct downloadables, and no
\* (selector, downloadable) pair occurs in it twice, also when a selector
\* is given more than once.
JobListIsDeduplicatedProduct ==
    jobs # <<>> =>
        /\ Len(jobs) = Cardinality(Range(Datasets(args)))
                       * Cardinality(Range(Expand(args.downloadable)))
        /\ \A i \in 1..Len(jobs), k \in 1..Len(jobs) : i # k => jobs[i] # jobs[k]

\* the spellings of the sentinel
AllSpellings == {"all", "All", "aLl", "alL", "ALl", "AlL", "aLL", "ALL"}

\* the downloadables a token stands for
Denotes(t) == IF t \in AllSpellings THEN Range(ALL_DOWNLOADABLES) ELSE {t}

RegistryIndex(x) ==
    CHOOSE i \in 1..Len(ALL_DOWNLOADABLES) : ALL_DOWNLOADABLES[i] = x

\* the first token that stands for x
FirstToken(tokens, x) ==
    CHOOSE k \in 1..Len(tokens) :
        /\ x \in Denotes(tokens[k])
        /\ \A m \in 1..(k - 1) : x \notin Denotes(tokens[m])

\* x is first seen before y in the expansion of the tokens
SeenBefore(tokens, x, y) ==
    \/ FirstToken(tokens, x) < FirstToken(tokens, y)
    \/ /\ FirstToken(tokens, x) = FirstToken(tokens, y)
       /\ RegistryIndex(x) < RegistryIndex(y)

\* the downloadables of the compiled job list: those of its first selector
CompiledDownloadables ==
    [i \in 1..(Len(jobs) \div Len(Datasets(args))) |-> jobs[i][3]]

\* C12: the downloadables cmd_download gets from flatten_downloadables have
\* no duplicates, are exactly the tokens with every spelling of "all"
\* replaced by the whole registry, and stand in first-seen order (registry
\* order inside an "all"); every selector is paired with that same list.
FlattenExpandsAllAndKeepsFirst ==
    mainpc = "collect" =>
        /\ \A i \in 1..Len(CompiledDownloadables), k \in 1..Len(CompiledDownloadables) :
              i # k => CompiledDownloadables[i] # CompiledDownloadables[k]
        /\ Range(CompiledDownloadables) =
              UNION {Denotes(args.downloadable[k]) : k \in 1..Len(args.downloadable)}
        /\ \A i \in 1..Len(CompiledDownloadables), k \in 1..Len(CompiledDownloadables) :
              i < k => SeenBefore(args.downloadable, CompiledDownloadables[i],
                                  CompiledDownloadables[k])
        /\ \A i \in 1..Len(jobs) :
              jobs[i][3] = CompiledDownloadables[((i - 1) % Len(CompiledDownloadables)) + 1]

\* C12 witness: an explicit registry entry followed by "all" compiled to
\* the registry in registry order.
RegistryOrderKeptAfterExplicitToken ==
    /\ mainpc = "collect"
    /\ args.downloadable = <<"gene_attribute_matrix.txt.gz", "all">>
    /\ CompiledDownloadables = ALL_DOWNLOADABLES

\* the download_one calls that a pool thread has started and not finished
InProgress == {j \in JobIds : pc[j] \in {"check", "get", "open", "write"}}

\* C13: at every moment of a batch at most args.workers calls of
\* download_one are in progress, whether the batch has more jobs than
\* workers or fewer.
AtMostWorkersInProgress == Cardinality(InProgress) <= args.workers

\* C13 witness: a batch with more jobs than workers has every worker busy
\* and a job waiting in the pool's queue.
AllWorkersBusyJobWaiting ==
    /\ Len(jobs) > args.workers
    /\ Cardinality(InProgress) = args.workers
    /\ \E j \in JobIds : pc[j] = "pending"

\* C14 (as claimed): under fair scheduling, with every request ending,
\* every submitted job eventually produces its result and the batch
\* reaches the Reporter, and a download_one call in progress can always
\* take its next step, whatever the other calls are doing.
ScheduledBatchReachesReporter ==
    /\ (mainpc = "collect") ~> (mainpc = "returned")
    /\ \A j \in 1..MaxJobs :
          (mainpc = "collect" /\ j \in JobIds)
              ~> (j \in JobIds /\ fut[j].kind = "returned")
    /\ [](\A j \in 1..MaxJobs : (j \in JobIds /\ Running(j)) => ENABLED JobStep(j))

\* the statuses the spec calls retry-eligible
RetryEligible == {429, 500, 502, 503, 504}

\* job j's request was issued again: the call is still inside session.get
\* and has one request more on the wire
Reissued(j) == pc'[j] = "get" /\ fut'[j] = Pending /\ reqs'[j] = reqs[j] + 1

\* job j's call of download_one ended with a failure result
EndedInFailure(j) ==
    /\ pc'[j] = "done"
    /\ fut'[j].kind = "returned"
    /\ ~fut'[j].value[4]

\* C15: a request answered with a retry-eligible status, or that meets a
\* connect or read failure, is issued again while fewer than args.retries
\* re-issues were made, and ends the job with a failure result (not an
\* exception) when the budget is spent; a job never has more than
\* args.retries + 1 requests; a 200 answer, first or after retries, lets
\* the job go on to write its target, and the write that completes gives
\* success "ok".
TransientFailuresRetriedWithinBudget ==
    [][\A j \in JobIds :
          /\ j \in DOMAIN reqs' => reqs'[j] <= args.retries + 1
          /\ \A s \in RetryEligible \cap AllStatuses, h \in BOOLEAN :
                GetResponse(j, s, h) =>
                    IF reqs[j] < args.retries THEN Reissued(j) ELSE EndedInFailure(j)
          /\ GetError(j) =>
                IF reqs[j] < args.retries THEN Reissued(j) ELSE EndedInFailure(j)
          /\ \A h \in BOOLEAN :
                GetResponse(j, 200, h) => pc'[j] = "open" /\ fut'[j] = Pending
          /\ (pc[j] = "write" /\ j \in DOMAIN pc' /\ pc'[j] = "done" /\ files' # files)
                => fut'[j] = Ok(j)]_vars

\* C15 witness: with one retry configured, a job whose first request failed
\* transiently got its body on the second request, and the batch returned 0
\* with the job reported "ok".
RetriedOnceThenOk ==
    /\ args.retries = 1
    /\ mainpc = "returned"
    /\ rc = <<0>>
    /\ \E j \in JobIds :
          /\ reqs[j] = 2
          /\ fut[j] = Ok(j)
          /\ files[Target(j)] = Payload(jobs[j], args.decompress)
          /\ Reported(j)

\* the 4xx statuses other than 429 among those the server answers with
PermanentStatuses == {s \in AllStatuses : s \in 400..499 /\ s # 429}

\* C16 (as claimed): a response with a 4xx status other than 429 is never
\* retried: it ends the job at once with a failure result, after exactly
\* one request when it answers the job's first request; an error while
\* the body is decoded or written ends the job at once with a failure
\* result and without another request; a job that has ended issues no
\* further request.
PermanentErrorsNeverRetried ==
    [][\A j \in JobIds :
          /\ \A s \in PermanentStatuses, h \in BOOLEAN :
                GetResponse(j, s, h) =>
                    /\ EndedInFailure(j)
                    /\ reqs[j] = 0 => reqs'[j] = 1
          /\ (Open(j) \/ WriteError(j)) /\ pc'[j] = "done" =>
                /\ EndedInFailure(j)
                /\ reqs'[j] = reqs[j]
          /\ (pc[j] = "done" /\ j \in DOMAIN reqs') => reqs'[j] = reqs[j]]_vars

\* session.get of job j returned a response to download_one in this step:
\* the request was neither issued again nor ended by the transport raising
ResponseReceived(j) ==
    /\ pc'[j] # "get"
    /\ fut'[j] # Caught(jobs[j], "RetryError")

\* C17: whenever session.get hands download_one a response whose status is
\* not 200, download_one returns at once the failure result with message
\* "HTTP <status>" for that status.
NonOkResponseReturnsHttpStatus ==
    [][\A j \in JobIds, s \in AllStatuses \ {200}, h \in BOOLEAN :
          (GetResponse(j, s, h) /\ ResponseReceived(j)) =>
              /\ pc'[j] = "done"
              /\ fut'[j] = Returned(jobs[j], FALSE, "HTTP " \o ToString(s))]_vars

\* C17 witness: a job whose request was answered 404 is reported with the
\* failure message "HTTP 404" and the batch returned 1.
NotFoundReportedAsHttp404 ==
    /\ mainpc = "returned"
    /\ rc = <<1>>
    /\ \E j \in JobIds :
          /\ fut[j] = Returned(jobs[j], FALSE, "HTTP 404")
          /\ Reported(j)

\* job j's call ended with the failure result that carries this description
FailedWith(j, description) ==
    /\ pc'[j] = "done"
    /\ fut'[j] = Returned(jobs[j], FALSE, description)

\* C18: an exception raised while download_one issues the request, checks
\* the status, opens the target, decodes or writes the body never leaves
\* download_one: the call ends with a failure result whose message is the
\* exception's description, and no future of a call that got that far
\* holds an exception.
ExceptionsInsideTryBecomeFailures ==
    [][\A j \in JobIds :
          /\ (GetError(j) /\ pc'[j] # "get") => FailedWith(j, "ConnectionError")
          /\ \A s \in RetryEligible \cap AllStatuses, h \in BOOLEAN :
                (GetResponse(j, s, h) /\ pc'[j] # "get") => FailedWith(j, "RetryError")
          /\ (Open(j) /\ pc'[j] # "write") => FailedWith(j, "IsADirectoryError")
          /\ WriteError(j) =>
                FailedWith(j, IF args.decompress /\ EndsWith(jobs[j][3], ".gz")
                              THEN "BadGzipFile" ELSE "ChunkedEncodingError")
          /\ (pc[j] \in {"get", "open", "write"} /\ j \in DOMAIN fut') =>
                /\ fut'[j].kind # "raised"
                /\ mainpc' \notin {"unwinding", "crashed"}]_vars

\* C18 witness: a job whose gzip stream could not be decoded is reported
\* with the exception's description, and cmd_download returned 1.
DecodeErrorReportedAsFailure ==
    /\ mainpc = "returned"
    /\ rc = <<1>>
    /\ \E j \in JobIds :
          /\ fut[j] = Returned(jobs[j], FALSE, "BadGzipFile")
          /\ Reported(j)

\* C19 (as claimed): every scheduled batch that is over has printed, after
\* the header, one status line per job -- "OK" exactly for the jobs whose
\* result is a success, "FAIL" exactly for those whose result is a failure
\* -- and then the tally line, whose two counts add up to the job count.
EveryScheduledBatchFullyReported ==
    (BatchOver /\ jobs # <<>>) =>
        /\ Len(printed) = Len(jobs) + 2
        /\ \A i \in 1..Len(jobs) :
              /\ results[i][1] \in JobIds
              /\ printed[i + 1] = StatusLine(fut[results[i][1]].value)
              /\ printed[i + 1][1] = "OK" <=> Outcome(fut[results[i][1]]) = "success"
              /\ printed[i + 1][1] = "FAIL" <=> Outcome(fut[results[i][1]]) = "failure"
        /\ \A j \in JobIds : \E i \in 1..Len(jobs) : results[i][1] = j
        /\ printed[Len(printed)][1] = "DONE"
        /\ printed[Len(printed)][2] + printed[Len(printed)][3] = Len(jobs)
        /\ printed[Len(printed)][2] =
              Cardinality({j \in JobIds : Outcome(fut[j]) = "success"})

\* the selectors of the compiled job list, one per -d token
CompiledSelectors ==
    [i \in 1..Len(args.dataset) |->
        <<jobs[(i - 1) * Len(CompiledDownloadables) + 1][1],
          jobs[(i - 1) * Len(CompiledDownloadables) + 1][2]>>]

\* the first place in t of a character of seps (t has one)
FirstIndex(t, seps) ==
    CHOOSE i \in 1..Len(t) :
        /\ CharAt(t, i) \in seps
        /\ \A k \in 1..(i - 1) : CharAt(t, k) \notin seps

HasAny(t, seps) == \E i \in 1..Len(t) : CharAt(t, i) \in seps

\* t cut in two at the first character of seps
CutAt(t, seps) ==
    <<SubSeq(t, 1, FirstIndex(t, seps) - 1),
      SubSeq(t, FirstIndex(t, seps) + 1, Len(t))>>

\* t without the whitespace around it
Trimmed(t) ==
    IF \A i \in 1..Len(t) : CharAt(t, i) \in Whitespace THEN ""
    ELSE SubSeq(t,
                CHOOSE a \in 1..Len(t) :
                    /\ CharAt(t, a) \notin Whitespace
                    /\ \A k \in 1..(a - 1) : CharAt(t, k) \in Whitespace,
                CHOOSE b \in 1..Len(t) :
                    /\ CharAt(t, b) \notin Whitespace
                    /\ \A k \in (b + 1)..Len(t) : CharAt(t, k) \in Whitespace)

\* the spec's resolveSelector, as worded
resolveSelector(token) ==
    IF token \in DOMAIN DATASET_MAP THEN <<DATASET_MAP[token], token>>
    ELSE IF HasAny(token, {"=", "\t"}) THEN CutAt(token, {"=", "\t"})
    ELSE <<token, token>>

\* C20 (as claimed): every -d token is resolved as resolveSelector words it:
\* a known short key to (registry name, token), a token with "=" or a tab
\* split at the first separator, any other token to (token, token).
SelectorsResolvedAsWorded ==
    (mainpc = "collect" /\ args.dataset # <<>>) =>
        \A i \in 1..Len(args.dataset) :
            CompiledSelectors[i] = resolveSelector(args.dataset[i])

\* C20 (amended): a token with a tab is split at its first tab, a token
\* without a tab but with "=" at its first "=", and name and path are the
\* two parts without the whitespace around them; any other token, without
\* the whitespace around it, gives (registry name, token) when it is a
\* known short key and (token, token) when it is not.
SelectorsResolvedTabFirstAndTrimmed ==
    (mainpc = "collect" /\ args.dataset # <<>>) =>
        \A i \in 1..Len(args.dataset) :
            CompiledSelectors[i] =
                IF HasAny(args.dataset[i], {"\t"})
                THEN <<Trimmed(CutAt(args.dataset[i], {"\t"})[1]),
                       Trimmed(CutAt(args.dataset[i], {"\t"})[2])>>
                ELSE IF HasAny(args.dataset[i], {"="})
                THEN <<Trimmed(CutAt(args.dataset[i], {"="})[1]),
                       Trimmed(CutAt(args.dataset[i], {"="})[2])>>
                ELSE IF Trimmed(args.dataset[i]) \in DOMAIN DATASET_MAP
                THEN <<DATASET_MAP[Trimmed(args.dataset[i])], Trimmed(args.dataset[i])>>
                ELSE <<Trimmed(args.dataset[i]), Trimmed(args.dataset[i])>>

\* C20 witness: a token with blanks around "=" and a token with "=" before
\* a tab were compiled to trimmed parts and to the split at the tab.
BlanksTrimmedAndTabPreferred ==
    /\ mainpc = "collect"
    /\ args.dataset = <<"A = a", "A=b\tc">>
    /\ CompiledSelectors = << <<"A", "a">>, <<"A=b", "c">> >>

-----------------------------------------------------------------------------
(* Path and write variant *)

\* the case in which the suffix is stripped and the body is decoded
StrippedCase(j) == args.decompress /\ EndsWith(jobs[j][3], ".gz")

PathUnder(j, filename) == OUTDIR \o "/" \o jobs[j][1] \o "/" \o filename

WithoutGz(downloadable) == SubSeq(downloadable, 1, Len(downloadable) - 3)

Decoded(body) == [i \in 1..Len(body) |-> Decode(body[i])]

\* a path this run has not written to
Untouched(p) == p \in DOMAIN files => p \in DOMAIN files0 /\ files[p] = files0[p]

\* C21: a job that returned "ok" has written, when decompress is set and the
\* downloadable ends with ".gz", the gzip-decoded body to
\* outdir/name/downloadable-without-".gz" and nothing to the unstripped
\* path, and in every other case the raw body to outdir/name/downloadable
TargetAndVariantFollowOnePredicate ==
    \A j \in JobIds :
        fut[j] = Returned(jobs[j], TRUE, "ok") =>
            IF StrippedCase(j)
            THEN /\ PathUnder(j, WithoutGz(jobs[j][3])) \in DOMAIN files
                 /\ files[PathUnder(j, WithoutGz(jobs[j][3]))]
                        = Decoded(Body(build_url(jobs[j][2], jobs[j][3])))
                 /\ Untouched(PathUnder(j, jobs[j][3]))
            ELSE /\ PathUnder(j, jobs[j][3]) \in DOMAIN files
                 /\ files[PathUnder(j, jobs[j][3])]
                        = Body(build_url(jobs[j][2], jobs[j][3]))

\* C21 witness: with decompress, "x.gz" of dataset A was fetched and its
\* decoded text is in out/A/x
DecodedTextAtStrippedPath ==
    /\ args.decompress
    /\ jobs = << <<"A", "a", "x.gz">> >>
    /\ fut[1] = Returned(jobs[1], TRUE, "ok")
    /\ "out/A/x" \in DOMAIN files
    /\ files["out/A/x"]
         = <<"text(https://maayanlab.cloud/static/hdfs/harmonizome/data/a/x.gz)">>
    /\ "out/A/x.gz" \notin DOMAIN files

-----------------------------------------------------------------------------
(* force *)

\* C22: with force set, no call ever holds the result "exists, skipped", and
\* every call that returned has put at least one request on the wire,
\* whether or not its target existed when the run started
ForceDisablesSkip ==
    args.force =>
        \A j \in JobIds :
            /\ fut[j] # Skipped(j)
            /\ fut[j].kind = "returned" => reqs[j] >= 1

\* C22 witness: with force set, a job whose target existed before the run
\* has issued its request and replaced the file
ForcedFetchOverExistingTarget ==
    /\ args.force
    /\ \E j \in JobIds :
        /\ Target(j) \in DOMAIN files0
        /\ reqs[j] = 1
        /\ fut[j] = Ok(j)
        /\ files[Target(j)] = Payload(jobs[j], args.decompress)

-----------------------------------------------------------------------------
(* Order of the job list *)

\* the selectors in the order given: those of the command line, then those
\* of the datasets file
SelectorsInOrder ==
    ParseAll(args.dataset) \o
    (IF args.datasets_file.given
     THEN read_datasets_file(args.datasets_file.lines) ELSE <<>>)

\* C23: nothing is submitted while the job list is empty, and once the list
\* is built it has one call per job and holds, at 0-based place i*|D|+j,
\* selector i (command-line selectors before those of the datasets file)
\* with downloadable j of the deduplicated first-seen list D
JobListIsSelectorMajor ==
    /\ jobs = <<>> => pc = <<>>
    /\ jobs # <<>> =>
        /\ DOMAIN pc = 1..Len(jobs)
        /\ Len(jobs) = Len(SelectorsInOrder)
                        * Len(flatten_downloadables(args.downloadable))
        /\ \A i \in 0..(Len(SelectorsInOrder) - 1),
              j \in 0..(Len(flatten_downloadables(args.downloadable)) - 1) :
              jobs[i * Len(flatten_downloadables(args.downloadable)) + j + 1]
                = <<SelectorsInOrder[i + 1][1], SelectorsInOrder[i + 1][2],
                    flatten_downloadables(args.downloadable)[j + 1]>>

\* C23 witness: one command-line selector, two selectors from the file and
\* fourteen downloadables give 42 jobs, dataset A first and B last
ThreeSelectorsTimesFourteen ==
    /\ args.dataset = <<"A=a">>
    /\ args.datasets_file.given
    /\ Len(jobs) = 42
    /\ jobs[1] = <<"A", "a", "gene_attribute_matrix.txt.gz">>
    /\ jobs[14] = <<"A", "a", "x">>
    /\ jobs[15] = <<"KEGG Pathways", "kegg", "gene_attribute_matrix.txt.gz">>
    /\ jobs[42] = <<"B", "b", "x">>

-----------------------------------------------------------------------------
(* The registries *)

\* C24: whatever has been parsed, flattened, listed or compiled, in the
\* first invocation and in every later one, DATASET_MAP and
\* ALL_DOWNLOADABLES hold the contents the import gave them
RegistriesNeverMutated ==
    /\ registry.DATASET_MAP = DATASET_MAP
    /\ registry.ALL_DOWNLOADABLES = ALL_DOWNLOADABLES

\* C24 witness: a second invocation has expanded "ALL" and appended "x" to
\* its result list, and the registry still has its thirteen entries
RegistryIntactAfterSecondExpansion ==
    /\ rerun
    /\ mainpc = "collect"
    /\ args.downloadable = <<"ALL", "x">>
    /\ Len(jobs) = 14
    /\ Len(registry.ALL_DOWNLOADABLES) = 13

-----------------------------------------------------------------------------
(* Interrupted fetches *)

\* the call of job j ended by an error after its target was opened
InterruptedWhileWriting(j) ==
    \/ fut[j] = Returned(jobs[j], FALSE, "BadGzipFile")
    \/ fut[j] = Returned(jobs[j], FALSE, "ChunkedEncodingError")

\* the file at p holds less than job j's whole payload
Truncated(j, p) == Len(files[p]) < Len(Payload(jobs[j], args.decompress))

\* C25: a fetch interrupted after its target was opened leaves a failure
\* result and a truncated target on disk; and in a later run without force
\* a job that failed before and finds its target on disk ends as success
\* "exists, skipped", with no request and the file left as it was
TruncatedTargetSkippedByLaterRun ==
    \A j \in JobIds :
        /\ InterruptedWhileWriting(j) =>
              /\ Outcome(fut[j]) = "failure"
              /\ Target(j) \in DOMAIN files
              /\ Truncated(j, Target(j))
        /\ (rerun /\ ~args.force /\ prev # <<>> /\ pc[j] = "done"
              /\ prev[j] = "failure" /\ Target(j) \in DOMAIN files0) =>
              /\ fut[j] = Skipped(j)
              /\ reqs[j] = 0
              /\ files[Target(j)] = files0[Target(j)]

\* C25 witness: the previous run failed while writing; this run found the
\* empty file, skipped the job and returned 0
TruncatedFileReportedAsSuccess ==
    /\ rerun
    /\ ~args.force
    /\ mainpc = "returned"
    /\ rc = <<0>>
    /\ prev = <<"failure">>
    /\ Target(1) \in DOMAIN files
    /\ files[Target(1)] = <<>>
    /\ Truncated(1, Target(1))
    /\ fut[1] = Skipped(1)
    /\ reqs[1] = 0

-----------------------------------------------------------------------------
(* Directory creation *)

\* the directory outdir/name of job j
DatasetDirectory(j) == OUTDIR \o "/" \o jobs[j][1]

\* job j's call is past ensure_dir and has not ended at it
PastEnsureDir(j) == pc[j] \in {"check", "get", "open", "write"}
                    \/ (pc[j] = "done" /\ fut[j].kind = "returned")

\* the directory is there for every call that is past ensure_dir, and a
\* call has raised at ensure_dir only over a regular file with that path
DirectoryThereWhenNeeded ==
    \A j \in JobIds :
        /\ PastEnsureDir(j) => DatasetDirectory(j) \in dirs
        /\ fut[j].kind = "raised" => DatasetDirectory(j) \in DOMAIN files0

\* C26: the directory outdir/name exists from the moment a call is past
\* ensure_dir, so before its target is opened and while it is written; a
\* call never raises at ensure_dir because the directory is there already,
\* whichever job made it; and ensure_dir on a directory that exists leaves
\* the filesystem as it is and lets the call go on
EnsureDirIdempotentAndFirst ==
    /\ []DirectoryThereWhenNeeded
    /\ [][\A j \in JobIds :
            (Start(j) /\ DatasetDirectory(j) \in dirs) =>
                /\ dirs' = dirs
                /\ files' = files
                /\ pc'[j] = "check"]_vars

\* C26 witness: two jobs of the same dataset ran at the same time, the
\* second passing ensure_dir after the first had created the directory, and
\* both returned
SharedDirectoryCreatedOnceBothReturned ==
    /\ Len(jobs) = 2
    /\ args.workers = 2
    /\ DatasetDirectory(1) = DatasetDirectory(2)
    /\ ~rerun
    /\ DOMAIN files0 = {}
    /\ pc[1] = "write"
    /\ pc[2] = "check"
    /\ DatasetDirectory(1) \in dirs

-----------------------------------------------------------------------------
(* The status check and the target *)

\* job j's call returned the failure "HTTP <status>"
HttpFailure(j) ==
    \E s \in AllStatuses : fut[j] = Returned(jobs[j], FALSE, "HTTP " \o ToString(s))

\* C27: the step in which download_one is handed a response that is not 200
\* ends the call with no file handle opened before or by it and with files
\* and directories as they were; and while a job's result is "HTTP
\* <status>" every file is as it was when the run started, so a target that
\* existed (force set) has its previous content and one that did not is
\* still absent
HttpFailureLeavesTargetAlone ==
    /\ [](\A j \in JobIds : HttpFailure(j) => files = files0)
    /\ [][\A j \in JobIds, s \in AllStatuses \ {200}, h \in BOOLEAN :
            (GetResponse(j, s, h) /\ ResponseReceived(j)) =>
                /\ pc'[j] = "done"
                /\ "file" \notin held[j] \cup held'[j]
                /\ files' = files
                /\ dirs' = dirs]_vars

\* C27 witness: with force set, a job whose target existed was answered 404
\* and the target still holds the old content
OldContentKeptAfterHttp404 ==
    /\ args.force
    /\ Len(jobs) = 1
    /\ fut[1] = Returned(jobs[1], FALSE, "HTTP 404")
    /\ reqs[1] = 1
    /\ Target(1) \in DOMAIN files0
    /\ files[Target(1)] = OldContent

-----------------------------------------------------------------------------
(* Responses and file handles *)

\* what the call of job j holds open at each position
HeldAt(j) ==
    IF pc[j] = "open" THEN {"response"}
    ELSE IF pc[j] = "write" THEN {"response", "file"}
    ELSE {}

\* C28: a call holds its response from the 200 answer on and its file
\* handle from the opening of the target on, and holds nothing before and
\* nothing once it has ended, whether it ended by "ok", by a non-200
\* status, by an exception caught in download_one or by one raised at
\* ensure_dir; so after the batch no response or file handle is open
NothingHeldAfterTheCall ==
    /\ DOMAIN held = JobIds
    /\ \A j \in JobIds : held[j] = HeldAt(j)
    /\ BatchOver => \A j \in JobIds : held[j] = {}

\* C28 witness: the batch is over with one job ended by "ok" and one by an
\* error while writing, and neither holds anything
AllClosedAfterOkAndInterruptedJob ==
    /\ mainpc = "returned"
    /\ \E j \in JobIds, k \in JobIds :
          /\ fut[j] = Ok(j)
          /\ InterruptedWhileWriting(k)
          /\ held[j] = {}
          /\ held[k] = {}

-----------------------------------------------------------------------------
(* rest_list of harmonizome_api_cli.py: one call against a paginated API  *)

MaxPages == 3           \* pages the remote API holds for one entity

HOST == "https://maayanlab.cloud"

BASE == "https://maayanlab.cloud/Harmonizome/api/1.0"

ENTITY_PATHS ==
    ("attribute" :> "attribute") @@
    ("dataset" :> "dataset") @@
    ("gene" :> "gene") @@
    ("gene-set" :> "gene_set") @@
    ("hgnc-family" :> "hgnc_family") @@
    ("naming-authority" :> "naming_authority") @@
    ("protein" :> "protein") @@
    ("resource" :> "resource")

\* a JSON object without members
EmptyObject == [k \in {} |-> None]

\* dict.get(key, default); a member that is null reads as None
Get(obj, key, default) == IF key \in DOMAIN obj THEN obj[key] ELSE default

\* Python's truth value of a `next` member: None and "" are false
Truthy(v) == v # None /\ v # <<"">>

\* the URL requests builds from url and params={"cursor": c}
WithParams(url, cursor) ==
    IF cursor = None THEN url ELSE url \o "?cursor=" \o ToString(cursor[1])

\* The remote API is described by what its pages hold: page k of an entity
\* is served at BASE/<path> (k = 0) or BASE/<path>?cursor=k, and its
\* `next` member is missing, null, empty, or a relative or absolute link to
\* a later page; a link to page MaxPages leads to a URL that is not served.
PageUrl(path, k) ==
    IF k = 0 THEN BASE \o "/" \o path
    ELSE BASE \o "/" \o path \o "?cursor=" \o ToString(k)

RelativeLink(path, k) == "/Harmonizome/api/1.0/" \o path \o "?cursor=" \o ToString(k)

LinkKinds == {"absent", "null", "empty", "relative", "absolute"}

LinksOf(k) ==
    {[kind |-> kd, to |-> k + 1] : kd \in {"absent", "null", "empty"}} \cup
    {[kind |-> kd, to |-> t] : kd \in {"relative", "absolute"}, t \in (k + 1)..MaxPages}

CountKinds == {"absent", "null", "zero", "number"}

ContentProfiles == {"full", "sparse"}

\* the entities of page k; <<"absent">> stands for a page without the member
ContentOf(profile, k) ==
    IF profile = "full"
    THEN <<"e" \o ToString(k) \o "a", "e" \o ToString(k) \o "b">>
    ELSE IF k = 0 THEN <<>>
    ELSE IF k = 1 THEN <<"absent">>
    ELSE <<"e" \o ToString(k)>>

Apis ==
    {[path |-> "gene_set", links |-> l, counts |-> c, profile |-> p] :
        l \in {f \in [0..(MaxPages - 1) -> UNION {LinksOf(k) : k \in 0..(MaxPages - 1)}] :
                  \A k \in 0..(MaxPages - 1) : f[k] \in LinksOf(k)},
        c \in CountKinds,
        p \in ContentProfiles}

\* the JSON object the API answers with for page k
PageJson(api, k) ==
    (IF ContentOf(api.profile, k) = <<"absent">> THEN EmptyObject
     ELSE "entities" :> ContentOf(api.profile, k))
    @@
    (CASE api.links[k].kind = "absent" -> EmptyObject
       [] api.links[k].kind = "null" -> "next" :> None
       [] api.links[k].kind = "empty" -> "next" :> <<"">>
       [] api.links[k].kind = "relative" ->
              "next" :> <<RelativeLink(api.path, api.links[k].to)>>
       [] api.links[k].kind = "absolute" ->
              "next" :> <<HOST \o RelativeLink(api.path, api.links[k].to)>>)
    @@
    (CASE api.counts = "absent" -> EmptyObject
       [] api.counts = "null" -> "count" :> None
       [] api.counts = "zero" -> "count" :> <<0>>
       [] api.counts = "number" -> "count" :> <<100 + k>>)

Serves(api, url) == \E k \in 0..(MaxPages - 1) : PageUrl(api.path, k) = url

\* lines 108-111: one session.get; raise_for_status raises HTTPError for
\* the 404 of a URL that is not served, otherwise the body's JSON
safe_get(api, url) ==
    IF Serves(api, url)
    THEN [raised |-> FALSE,
          json |-> PageJson(api, CHOOSE k \in 0..(MaxPages - 1) :
                                    PageUrl(api.path, k) = url)]
    ELSE [raised |-> TRUE, json |-> EmptyObject]

\* line 143
Full(next_url) == IF StartsWith(next_url, "/") THEN HOST \o next_url ELSE next_url

\* faulty variant: the page's entities replace the accumulated ones
AccumulateLastPage(entities, p) == Get(p, "entities", <<>>)

\* lines 140 and 146: entities.extend(p.get("entities", []))
Accumulate(entities, p) == entities \o Get(p, "entities", <<>>)

RestCalls ==
    {[pc |-> "start", api |-> a, entity |-> "gene-set", cursor |-> c,
      all_pages |-> b, requests |-> <<>>, total |-> None, next_url |-> None,
      entities |-> <<>>, result |-> None] :
        a \in Apis, c \in {None, <<1>>}, b \in BOOLEAN}

\* a call of rest_list with no batch of the downloader around it
InitRest ==
    /\ rest \in RestCalls
    /\ args = None
    /\ rerun = FALSE
    /\ mainpc = "idle"
    /\ rc = None
    /\ jobs = <<>>
    /\ session = TRUE
    /\ pc = <<>>
    /\ fut = <<>>
    /\ reqs = <<>>
    /\ off = <<>>
    /\ results = <<>>
    /\ printed = <<>>
    /\ dirs = {}
    /\ files = [p \in {} |-> OldContent]
    /\ files0 = files
    /\ prev = <<>>
    /\ held = <<>>
    /\ registry = Registry

Downloader == <<args, rerun, mainpc, rc, jobs, session, pc, fut, reqs, off,
                results, printed, dirs, files, files0, prev, held, registry>>

\* lines 128-135: the first page is requested, with the cursor when one is
\* given; without all_pages the page is returned as it is
RestFirst ==
    /\ rest.pc = "start"
    /\ LET url == WithParams(BASE \o "/" \o ENTITY_PATHS[rest.entity], rest.cursor)
           page == safe_get(rest.api, url)
       IN  rest' =
             IF page.raised
             THEN [rest EXCEPT !.pc = "raised", !.requests = Append(@, url)]
             ELSE IF ~rest.all_pages
             THEN [rest EXCEPT !.pc = "returned", !.requests = Append(@, url),
                               !.result = page.json]
             ELSE [rest EXCEPT !.pc = "loop", !.requests = Append(@, url),
                               !.total = Get(page.json, "count", None),
                               !.next_url = Get(page.json, "next", None),
                               !.entities = Accumulate(<<>>, page.json)]
    /\ UNCHANGED Downloader

\* lines 142-147: one turn of the loop
RestNext ==
    /\ rest.pc = "loop"
    /\ Truthy(rest.next_url)
    /\ LET full == Full(rest.next_url[1])
           p == safe_get(rest.api, full)
       IN  rest' =
             IF p.raised
             THEN [rest EXCEPT !.pc = "raised", !.requests = Append(@, full)]
             ELSE [rest EXCEPT !.requests = Append(@, full),
                               !.entities = Accumulate(@, p.json),
                               !.next_url = Get(p.json, "next", None)]
    /\ UNCHANGED Downloader

\* lines 142 and 148: next_url is false, the loop ends and the result is built
RestReturn ==
    /\ rest.pc = "loop"
    /\ ~Truthy(rest.next_url)
    /\ rest' = [rest EXCEPT
                  !.pc = "returned",
                  !.result = [count |-> IF rest.total # None THEN rest.total
                                        ELSE <<Len(rest.entities)>>,
                              entities |-> rest.entities]]
    /\ UNCHANGED Downloader

NextRest == RestFirst \/ RestNext \/ RestReturn

RestSpec == InitRest /\ [][NextRest]_vars

-----------------------------------------------------------------------------
(* Pagination *)

\* the page the call starts from
FirstPage == IF rest.cursor = None THEN 0 ELSE rest.cursor[1]

\* the pages that the links lead through from page k, the unserved page
\* MaxPages included when a link leads to it
RECURSIVE Visit(_)
Visit(k) ==
    IF k >= MaxPages THEN <<k>>
    ELSE IF rest.api.links[k].kind \in {"relative", "absolute"}
    THEN <<k>> \o Visit(rest.api.links[k].to)
    ELSE <<k>>

Last(seq) == seq[Len(seq)]

RECURSIVE EntitiesOver(_)
EntitiesOver(ks) ==
    IF ks = <<>> THEN <<>>
    ELSE (IF ContentOf(rest.api.profile, Head(ks)) = <<"absent">> THEN <<>>
          ELSE ContentOf(rest.api.profile, Head(ks)))
         \o EntitiesOver(Tail(ks))

UrlsOf(ks) == [i \in 1..Len(ks) |-> PageUrl(ENTITY_PATHS[rest.entity], ks[i])]

IsPrefix(s, t) == Len(s) <= Len(t) /\ SubSeq(t, 1, Len(s)) = s

\* C29: the requests of a call are, one per page and in order, those of the
\* pages that the `next` links lead through from the first page; a call
\* with all_pages returns once the page without a (non-empty) `next` is
\* read, with the entities of all those pages concatenated in page order
\* and with the first page's count, or the number of entities when the
\* first page has no count; it raises only when a link leads to a URL that
\* is not served; without all_pages one request is made and the first
\* page is the result
PaginationExhausted ==
    /\ IsPrefix(rest.requests, UrlsOf(Visit(FirstPage)))
    /\ rest.pc = "raised" =>
          /\ rest.all_pages
          /\ Last(Visit(FirstPage)) = MaxPages
          /\ rest.requests = UrlsOf(Visit(FirstPage))
    /\ (rest.pc = "returned" /\ rest.all_pages) =>
          /\ Last(Visit(FirstPage)) < MaxPages
          /\ rest.requests = UrlsOf(Visit(FirstPage))
          /\ DOMAIN rest.result = {"count", "entities"}
          /\ rest.result.entities = EntitiesOver(Visit(FirstPage))
          /\ rest.result.count =
                IF rest.api.counts \in {"zero", "number"}
                THEN PageJson(rest.api, FirstPage)["count"]
                ELSE <<Len(EntitiesOver(Visit(FirstPage)))>>
    /\ (rest.pc = "returned" /\ ~rest.all_pages) =>
          /\ rest.requests = <<PageUrl(ENTITY_PATHS[rest.entity], FirstPage)>>
          /\ rest.result = PageJson(rest.api, FirstPage)

\* C29 witness: a call with all_pages went through three pages, the second
\* reached by a relative link and the third by an absolute one, and
\* returned their six entities with the first page's count
ThreePagesConcatenated ==
    /\ rest.pc = "returned"
    /\ rest.all_pages
    /\ rest.cursor = None
    /\ rest.api.links[0].kind = "relative"
    /\ rest.api.links[1].kind = "absolute"
    /\ Len(rest.requests) = 3
    /\ rest.result.entities = <<"e0a", "e0b", "e1a", "e1b", "e2a", "e2b">>
    /\ rest.result.count = <<100>>

====
